---- MODULE Spec2Model ----
(***************************************************************************)
(* Model of the Web Push integration of the M&N driver portal.             *)
(*                                                                         *)
(*   static/push.js : the page-side subscription manager, window.MNPush    *)
(*                    (enable, disable) over registerSW, subscribePush and *)
(*                    postJSON.                                            *)
(*   service worker : the push and notificationclick listeners.            *)
(*                                                                         *)
(* Every await of push.js is one step of a call; the platform (worker      *)
(* registration, permission prompt, push manager) and the server answer    *)
(* each step with any outcome they can produce.                            *)
(***************************************************************************)
EXTENDS Integers, Sequences, FiniteSets, TLC

\* Number of calls of window.MNPush the page may have in flight.
NCalls == 2
\* Number of distinct subscriptions the platform issues in one run.
MaxSubs == 2

Calls == 1..NCalls

(***************************************************************************)
(* Error messages.  The first three are literals of push.js; the others    *)
(* stand for the messages of the errors the platform raises.               *)
(***************************************************************************)
ErrNoSW == "Service Worker not supported"
ErrPerm == "Notifications permission not granted"
ErrFallback == "Request failed"
ErrRegister == "platform: register rejected"
ErrDecode == "platform: atob InvalidCharacterError"
ErrSubscribe == "platform: subscribe rejected"
ErrFetch == "platform: fetch rejected"
ErrBody == "platform: body stream error"
ErrUnsubscribe == "platform: unsubscribe rejected"

\* VAPID keys the page may pass: one that decodes and one that atob rejects.
Keys == {"good", "malformed"}
Permissions == {"granted", "denied", "default"}

(***************************************************************************)
(* What fetch can produce for a POST.  kind: "ok" is a 2xx status, "bad"   *)
(* any other status, "neterr" a rejected fetch.  body is the response      *)
(* text; readable is FALSE when the body stream fails while it is read.    *)
(* applied tells whether the server carried the request out: always for a  *)
(* 2xx, never for a rejection, either way when the exchange broke.         *)
(***************************************************************************)
Bodies == {"", "invalid subscription", "{\"ok\":true}"}
JsonBodies == {"{\"ok\":true}"}
NoResp == [kind |-> "none", body |-> "", readable |-> FALSE, applied |-> FALSE]
Responses ==
    {[kind |-> "ok", body |-> b, readable |-> TRUE, applied |-> TRUE] : b \in Bodies}
    \cup {[kind |-> "ok", body |-> "", readable |-> FALSE, applied |-> TRUE]}
    \cup {[kind |-> "bad", body |-> b, readable |-> TRUE, applied |-> FALSE] : b \in Bodies}
    \cup {[kind |-> "bad", body |-> "", readable |-> FALSE, applied |-> FALSE]}
    \cup {[kind |-> "neterr", body |-> "", readable |-> FALSE, applied |-> a] : a \in BOOLEAN}

VARIABLES
    supported,      \* 'serviceWorker' in navigator
    registered,     \* the platform holds a registration of /static/sw.js
    platSub,        \* the registration's active push subscription, 0 for none
    nextId,         \* identity of the next subscription the platform issues
    serverRec,      \* subscriptions the server has on record
    pc,             \* per call: position in enable / disable
    op,             \* per call: "enable", "disable" or "none"
    key,            \* per call: the vapidPublicKey argument
    reg,            \* per call: what registerSW gave: "unset", "null", "reg", "rejected"
    perm,           \* per call: what Notification.requestPermission gave
    sub,            \* per call: the local const sub / existing, 0 for null
    resp,           \* per call: what fetch gave to postJSON
    err,            \* per call: message of the error the call failed with
    did,            \* per call: the platform and network operations it invoked
    before,         \* per call: the state, and the call last returned, as the call began
    subscribeCalls, \* invocations of pushManager.subscribe since the last disable() began
    subscribeOk,    \* those that resolved
    posted,         \* bodies POSTed to /push/subscribe since the last disable() began
    lastCall,       \* the call the page took the result of last
    disabledOk      \* a disable() has resolved true and no enable() was made since

mgrVars == <<supported, registered, platSub, nextId, serverRec, pc, op, key, reg,
             perm, sub, resp, err, did, before, subscribeCalls, subscribeOk, posted,
             lastCall, disabledOk>>
callVars == <<pc, op, key, reg, perm, sub, resp, err, did, before>>
histVars == <<subscribeCalls, subscribeOk, posted, lastCall, disabledOk>>

\* The service worker: the last event dispatched to it and what its listener did.
VARIABLES
    event,          \* "none", "push" or "notificationclick"
    pushData,       \* push: event.data
    click,          \* notificationclick: notification.data, the window clients, openWindow support
    threw,          \* the listener threw
    shown,          \* showNotification calls the listener made, in order
    closed,         \* event.notification.close() was called
    focused,        \* indices (in clientList) of the clients the listener focused, in order
    opened          \* urls the listener passed to clients.openWindow, in order

wkVars == <<event, pushData, click, threw, shown, closed, focused, opened>>

\* urlBase64ToUint8Array applied on its own: its argument and what it gave.
VARIABLES
    keyIn,          \* base64String, as a sequence of characters
    keyOut          \* whether it ran, whether it threw, and the bytes of the array

decVars == <<keyIn, keyOut>>

\* The worker's listeners run step by step: what the platform was asked to do,
\* what is still in flight, and what keeps the worker running.
VARIABLES
    running,        \* the event dispatched: "none", "push" or "notificationclick"
    rClick,         \* the click dispatched
    calls,          \* the platform calls the listener has made, in order
    pending,        \* the calls whose promise has not settled
    chain,          \* the calls the promise given to event.waitUntil waits on
    listed,         \* the callback of clients.matchAll has run
    alive           \* the worker has not been terminated

runVars == <<running, rClick, calls, pending, chain, listed, alive>>

\* The worker's lifecycle: a new worker is installed over what was there.
VARIABLES
    wState,         \* the new worker: parsed, installing, installed, activating, activated
    skipRequested,  \* self.skipWaiting() has been called
    skipFlag,       \* the worker's skip waiting flag
    oldState,       \* the prior worker: "none", "active" or "redundant"
    oldBusy,        \* the prior worker has events in progress
    windows,        \* the open client windows: path and controller
    claimPending    \* self.clients.claim() has been called and has not settled

lifeVars == <<wState, skipRequested, skipFlag, oldState, oldBusy, windows, claimPending>>

\* What the subscription manager leaves alone, and what the listeners above do.
extraVars == <<decVars, runVars, lifeVars>>
\* What a step of the listeners, and what a step of the lifecycle, leaves alone.
notRunVars == <<mgrVars, wkVars, decVars, lifeVars>>
notLifeVars == <<mgrVars, wkVars, decVars, runVars>>
restVars == <<wkVars, extraVars>>

vars == <<mgrVars, wkVars, extraVars>>

Sat(n) == IF n < 2 THEN n + 1 ELSE n

\* Faulty registerSW: the capability test is missing, so without worker
\* support the read of navigator.serviceWorker.register raises.
registerSWNoCapabilityCheck(resolves) ==
    IF supported /\ (resolves \/ registered) THEN "reg" ELSE "rejected"

\* Faulty registerSW: the script url differs from call to call, so register
\* fetches the script anew and can reject though a registration is held.
registerSWFreshUrl(resolves) ==
    IF ~supported THEN "null"
    ELSE IF resolves THEN "reg" ELSE "rejected"

(***************************************************************************)
(* registerSW (push.js 1-4): null without worker support, otherwise the    *)
(* promise of navigator.serviceWorker.register, which resolves or rejects; *)
(* it resolves with the registration the platform holds once the same      *)
(* script has been registered.                                             *)
(***************************************************************************)
registerSW(resolves) ==
    IF ~supported THEN "null"
    ELSE IF resolves \/ registered THEN "reg" ELSE "rejected"

\* Faulty postJSON: a rejection always carries the generic message.
postJSONGenericMessage(r) ==
    IF r.kind = "neterr" THEN [threw |-> TRUE, msg |-> ErrFetch, value |-> ""]
    ELSE IF r.kind # "ok"
         THEN [threw |-> TRUE, msg |-> ErrFallback, value |-> ""]
         ELSE [threw |-> FALSE, msg |-> "", value |-> "{}"]

(***************************************************************************)
(* postJSON (push.js 31-42) on what fetch gave: the error it throws, or    *)
(* the value it returns.                                                   *)
(***************************************************************************)
postJSON(r) ==
    IF r.kind = "neterr" THEN [threw |-> TRUE, msg |-> ErrFetch, value |-> ""]
    ELSE IF r.kind # "ok"
         THEN IF ~r.readable THEN [threw |-> TRUE, msg |-> ErrBody, value |-> ""]
              ELSE [threw |-> TRUE,
                    msg |-> IF r.body # "" THEN r.body ELSE ErrFallback,
                    value |-> ""]
         ELSE [threw |-> FALSE, msg |-> "",
               value |-> IF r.readable /\ r.body \in JsonBodies THEN r.body ELSE "{}"]

NoCall == [op |-> "none", ok |-> FALSE, sub |-> 0, postFailed |-> FALSE]

Snapshot ==
    [registered |-> registered, platSub |-> platSub, serverRec |-> serverRec,
     lastCall |-> lastCall, disabledOk |-> disabledOk]
NoSnapshot ==
    [registered |-> FALSE, platSub |-> 0, serverRec |-> {},
     lastCall |-> NoCall, disabledOk |-> FALSE]

MgrInit ==
    /\ supported \in BOOLEAN
    /\ registered = FALSE
    /\ platSub = 0
    /\ nextId = 1
    /\ serverRec = {}
    /\ pc = [c \in Calls |-> "idle"]
    /\ op = [c \in Calls |-> "none"]
    /\ key = [c \in Calls |-> "none"]
    /\ reg = [c \in Calls |-> "unset"]
    /\ perm = [c \in Calls |-> "unset"]
    /\ sub = [c \in Calls |-> 0]
    /\ resp = [c \in Calls |-> NoResp]
    /\ err = [c \in Calls |-> ""]
    /\ did = [c \in Calls |-> {}]
    /\ before = [c \in Calls |-> NoSnapshot]
    /\ subscribeCalls = 0
    /\ subscribeOk = 0
    /\ posted = {}
    /\ lastCall = NoCall
    /\ disabledOk = FALSE

Fresh(c, o, k) ==
    /\ pc' = [pc EXCEPT ![c] = "reg"]
    /\ op' = [op EXCEPT ![c] = o]
    /\ key' = [key EXCEPT ![c] = k]
    /\ reg' = [reg EXCEPT ![c] = "unset"]
    /\ perm' = [perm EXCEPT ![c] = "unset"]
    /\ sub' = [sub EXCEPT ![c] = 0]
    /\ resp' = [resp EXCEPT ![c] = NoResp]
    /\ err' = [err EXCEPT ![c] = ""]
    /\ did' = [did EXCEPT ![c] = {}]
    /\ before' = [before EXCEPT ![c] = Snapshot]

Throw(c, m) ==
    /\ pc' = [pc EXCEPT ![c] = "failed"]
    /\ err' = [err EXCEPT ![c] = m]

Goto(c, p) ==
    /\ pc' = [pc EXCEPT ![c] = p]
    /\ UNCHANGED err

Did(c, what) == did' = [did EXCEPT ![c] = @ \cup what]

\* The page calls MNPush.enable(k).
StartEnable(c) ==
    /\ pc[c] = "idle"
    /\ \E k \in Keys : Fresh(c, "enable", k)
    /\ UNCHANGED restVars
    /\ UNCHANGED <<supported, registered, platSub, nextId, serverRec, histVars>>

\* The page calls MNPush.disable().
StartDisable(c) ==
    /\ pc[c] = "idle"
    /\ Fresh(c, "disable", "none")
    /\ subscribeCalls' = 0
    /\ subscribeOk' = 0
    /\ posted' = {}
    /\ UNCHANGED <<lastCall, disabledOk>>
    /\ UNCHANGED restVars
    /\ UNCHANGED <<supported, registered, platSub, nextId, serverRec>>

\* subscribePush: const reg = await registerSW(); if (!reg) throw ...
EnableRegister(c) ==
    /\ pc[c] = "reg" /\ op[c] = "enable"
    /\ \E resolves \in BOOLEAN :
         LET r == registerSW(resolves) IN
         /\ reg' = [reg EXCEPT ![c] = r]
         /\ registered' = (registered \/ r = "reg")
         /\ Did(c, IF supported THEN {"register"} ELSE {})
         /\ CASE r = "null" -> Throw(c, ErrNoSW)
              [] r = "rejected" -> Throw(c, ErrRegister)
              [] OTHER -> Goto(c, "perm")
    /\ UNCHANGED restVars
    /\ UNCHANGED <<supported, platSub, nextId, serverRec, op, key, before, perm,
                   sub, resp, histVars>>

\* Faulty permission step: the result of the prompt is not tested.
EnablePermissionUnchecked(c) ==
    /\ pc[c] = "perm"
    /\ \E p \in Permissions :
         /\ perm' = [perm EXCEPT ![c] = p]
         /\ Did(c, {"permission"})
         /\ Goto(c, "getsub")
    /\ UNCHANGED restVars
    /\ UNCHANGED <<supported, registered, platSub, nextId, serverRec, op, key,
                   before, reg, sub, resp, histVars>>

\* subscribePush: const perm = await Notification.requestPermission(); ...
EnablePermission(c) ==
    /\ pc[c] = "perm"
    /\ \E p \in Permissions :
         /\ perm' = [perm EXCEPT ![c] = p]
         /\ Did(c, {"permission"})
         /\ IF p # "granted" THEN Throw(c, ErrPerm) ELSE Goto(c, "getsub")
    /\ UNCHANGED restVars
    /\ UNCHANGED <<supported, registered, platSub, nextId, serverRec, op, key,
                   before, reg, sub, resp, histVars>>

\* Faulty lookup: the existing subscription is not returned, subscribe is
\* invoked every time.
EnableGetSubscriptionNoReuse(c) ==
    /\ pc[c] = "getsub" /\ op[c] = "enable"
    /\ sub' = [sub EXCEPT ![c] = platSub]
    /\ Did(c, {"lookup"})
    /\ Goto(c, "subscribe")
    /\ UNCHANGED restVars
    /\ UNCHANGED <<supported, registered, platSub, nextId, serverRec, op, key,
                   before, reg, perm, resp, histVars>>

\* Faulty lookup: the key is decoded before the existing subscription is
\* looked at, so a key atob rejects makes enable() fail whatever exists.
EnableGetSubscriptionDecodesFirst(c) ==
    /\ pc[c] = "getsub" /\ op[c] = "enable"
    /\ sub' = [sub EXCEPT ![c] = platSub]
    /\ Did(c, {"lookup", "decode"})
    /\ IF key[c] = "malformed" THEN Throw(c, ErrDecode)
       ELSE Goto(c, IF platSub # 0 THEN "post" ELSE "subscribe")
    /\ UNCHANGED restVars
    /\ UNCHANGED <<supported, registered, platSub, nextId, serverRec, op, key,
                   before, reg, perm, resp, histVars>>

\* subscribePush: const existing = await reg.pushManager.getSubscription();
\* if (existing) return existing;
EnableGetSubscription(c) ==
    /\ pc[c] = "getsub" /\ op[c] = "enable"
    /\ sub' = [sub EXCEPT ![c] = platSub]
    /\ Did(c, {"lookup"})
    /\ Goto(c, IF platSub # 0 THEN "post" ELSE "subscribe")
    /\ UNCHANGED restVars
    /\ UNCHANGED <<supported, registered, platSub, nextId, serverRec, op, key,
                   before, reg, perm, resp, histVars>>

\* subscribePush: return reg.pushManager.subscribe({..., applicationServerKey:
\* urlBase64ToUint8Array(vapidPublicKey)}).  The argument is evaluated first,
\* so a key atob rejects throws before subscribe is invoked.  The platform
\* gives back the registration's subscription when it has one already.
EnableSubscribe(c) ==
    /\ pc[c] = "subscribe"
    /\ IF key[c] = "malformed"
       THEN /\ Did(c, {"decode"})
            /\ Throw(c, ErrDecode)
            /\ UNCHANGED <<platSub, nextId, sub, histVars>>
       ELSE /\ Did(c, {"decode", "subscribe"})
            /\ subscribeCalls' = Sat(subscribeCalls)
            /\ UNCHANGED <<posted, lastCall, disabledOk>>
            /\ \/ /\ platSub = 0 /\ nextId <= MaxSubs
                  /\ platSub' = nextId
                  /\ nextId' = nextId + 1
                  /\ sub' = [sub EXCEPT ![c] = nextId]
                  /\ subscribeOk' = Sat(subscribeOk)
                  /\ Goto(c, "post")
               \/ /\ platSub # 0
                  /\ sub' = [sub EXCEPT ![c] = platSub]
                  /\ subscribeOk' = Sat(subscribeOk)
                  /\ Goto(c, "post")
                  /\ UNCHANGED <<platSub, nextId>>
               \/ /\ Throw(c, ErrSubscribe)
                  /\ UNCHANGED <<platSub, nextId, sub, subscribeOk>>
    /\ UNCHANGED restVars
    /\ UNCHANGED <<supported, registered, serverRec, op, key, before, reg, perm, resp>>

\* Faulty enable: the POST is not awaited, true is returned whatever it gives.
EnablePostNotAwaited(c) ==
    /\ pc[c] = "post" /\ op[c] = "enable"
    /\ \E r \in Responses :
         /\ resp' = [resp EXCEPT ![c] = r]
         /\ serverRec' = IF r.applied THEN serverRec \cup {sub[c]} ELSE serverRec
         /\ Goto(c, "done")
    /\ Did(c, {"post"})
    /\ posted' = posted \cup {sub[c]}
    /\ UNCHANGED restVars
    /\ UNCHANGED <<supported, registered, platSub, nextId, op, key, before, reg,
                   perm, sub, subscribeCalls, subscribeOk, lastCall, disabledOk>>

\* Faulty enable: when the POST fails the subscription is unsubscribed again.
EnablePostRollsBack(c) ==
    /\ pc[c] = "post" /\ op[c] = "enable"
    /\ \E r \in Responses :
         /\ resp' = [resp EXCEPT ![c] = r]
         /\ serverRec' = IF r.applied THEN serverRec \cup {sub[c]} ELSE serverRec
         /\ IF postJSON(r).threw
            THEN Throw(c, postJSON(r).msg) /\ platSub' = 0
            ELSE Goto(c, "done") /\ UNCHANGED platSub
    /\ Did(c, {"post"})
    /\ posted' = posted \cup {sub[c]}
    /\ UNCHANGED restVars
    /\ UNCHANGED <<supported, registered, nextId, op, key, before, reg,
                   perm, sub, subscribeCalls, subscribeOk, lastCall, disabledOk>>

\* enable: await postJSON('/push/subscribe', sub); return true;
EnablePost(c) ==
    /\ pc[c] = "post" /\ op[c] = "enable"
    /\ \E r \in Responses :
         /\ resp' = [resp EXCEPT ![c] = r]
         /\ serverRec' = IF r.applied THEN serverRec \cup {sub[c]} ELSE serverRec
         /\ IF postJSON(r).threw THEN Throw(c, postJSON(r).msg) ELSE Goto(c, "done")
    /\ Did(c, {"post"})
    /\ posted' = posted \cup {sub[c]}
    /\ UNCHANGED restVars
    /\ UNCHANGED <<supported, registered, platSub, nextId, op, key, before, reg,
                   perm, sub, subscribeCalls, subscribeOk, lastCall, disabledOk>>

\* disable: const reg = await registerSW(); if (!reg) return true;
DisableRegister(c) ==
    /\ pc[c] = "reg" /\ op[c] = "disable"
    /\ \E resolves \in BOOLEAN :
         LET r == registerSW(resolves) IN
         /\ reg' = [reg EXCEPT ![c] = r]
         /\ registered' = (registered \/ r = "reg")
         /\ Did(c, IF supported THEN {"register"} ELSE {})
         /\ CASE r = "null" -> Goto(c, "done")
              [] r = "rejected" -> Throw(c, ErrRegister)
              [] OTHER -> Goto(c, "getsub")
    /\ UNCHANGED restVars
    /\ UNCHANGED <<supported, platSub, nextId, serverRec, op, key, before, perm,
                   sub, resp, histVars>>

\* Faulty disable: the server is not told, the subscription is revoked at once.
DisableGetSubscriptionSkipsPost(c) ==
    /\ pc[c] = "getsub" /\ op[c] = "disable"
    /\ sub' = [sub EXCEPT ![c] = platSub]
    /\ Did(c, {"lookup"})
    /\ Goto(c, IF platSub # 0 THEN "unsub" ELSE "done")
    /\ UNCHANGED restVars
    /\ UNCHANGED <<supported, registered, platSub, nextId, serverRec, op, key,
                   before, reg, perm, resp, histVars>>

\* Faulty disable: the if (sub) test is missing, the POST is made without a
\* subscription.
DisableGetSubscriptionAlwaysPosts(c) ==
    /\ pc[c] = "getsub" /\ op[c] = "disable"
    /\ sub' = [sub EXCEPT ![c] = platSub]
    /\ Did(c, {"lookup"})
    /\ Goto(c, "post")
    /\ UNCHANGED restVars
    /\ UNCHANGED <<supported, registered, platSub, nextId, serverRec, op, key,
                   before, reg, perm, resp, histVars>>

\* disable: const sub = await reg.pushManager.getSubscription(); if (sub) {...}
DisableGetSubscription(c) ==
    /\ pc[c] = "getsub" /\ op[c] = "disable"
    /\ sub' = [sub EXCEPT ![c] = platSub]
    /\ Did(c, {"lookup"})
    /\ Goto(c, IF platSub # 0 THEN "post" ELSE "done")
    /\ UNCHANGED restVars
    /\ UNCHANGED <<supported, registered, platSub, nextId, serverRec, op, key,
                   before, reg, perm, resp, histVars>>

\* Faulty disable: a failed POST is swallowed and the revocation goes ahead.
DisablePostUnchecked(c) ==
    /\ pc[c] = "post" /\ op[c] = "disable"
    /\ \E r \in Responses :
         /\ resp' = [resp EXCEPT ![c] = r]
         /\ serverRec' = IF r.applied THEN serverRec \ {sub[c]} ELSE serverRec
         /\ Goto(c, "unsub")
    /\ Did(c, {"post"})
    /\ UNCHANGED restVars
    /\ UNCHANGED <<supported, registered, platSub, nextId, op, key, before, reg,
                   perm, sub, histVars>>

\* disable: await postJSON('/push/unsubscribe', sub);
DisablePost(c) ==
    /\ pc[c] = "post" /\ op[c] = "disable"
    /\ \E r \in Responses :
         /\ resp' = [resp EXCEPT ![c] = r]
         /\ serverRec' = IF r.applied THEN serverRec \ {sub[c]} ELSE serverRec
         /\ IF postJSON(r).threw THEN Throw(c, postJSON(r).msg) ELSE Goto(c, "unsub")
    /\ Did(c, {"post"})
    /\ UNCHANGED restVars
    /\ UNCHANGED <<supported, registered, platSub, nextId, op, key, before, reg,
                   perm, sub, histVars>>

\* disable: await sub.unsubscribe(); return true;
\* unsubscribe resolves true when it deactivated the subscription, false when
\* the subscription was no longer active, and rejects when it could not.
DisableUnsubscribe(c) ==
    /\ pc[c] = "unsub"
    /\ Did(c, {"unsubscribe"})
    /\ \/ /\ platSub = sub[c]
          /\ platSub' = 0
          /\ Goto(c, "done")
       \/ /\ platSub = sub[c]
          /\ Throw(c, ErrUnsubscribe)
          /\ UNCHANGED platSub
       \/ /\ platSub # sub[c]
          /\ Goto(c, "done")
          /\ UNCHANGED platSub
    /\ UNCHANGED restVars
    /\ UNCHANGED <<supported, registered, nextId, serverRec, op, key, before, reg,
                   perm, sub, resp, histVars>>

\* The page takes the call's result; the slot is free for the next call.
Return(c) ==
    /\ pc[c] \in {"done", "failed"}
    /\ pc' = [pc EXCEPT ![c] = "idle"]
    /\ op' = [op EXCEPT ![c] = "none"]
    /\ key' = [key EXCEPT ![c] = "none"]
    /\ reg' = [reg EXCEPT ![c] = "unset"]
    /\ perm' = [perm EXCEPT ![c] = "unset"]
    /\ sub' = [sub EXCEPT ![c] = 0]
    /\ resp' = [resp EXCEPT ![c] = NoResp]
    /\ err' = [err EXCEPT ![c] = ""]
    /\ did' = [did EXCEPT ![c] = {}]
    /\ before' = [before EXCEPT ![c] = NoSnapshot]
    /\ lastCall' = [op |-> op[c], ok |-> pc[c] = "done", sub |-> sub[c],
                    postFailed |-> "post" \in did[c] /\ resp[c].kind # "ok"]
    /\ disabledOk' = IF op[c] = "disable" THEN disabledOk \/ pc[c] = "done" ELSE FALSE
    /\ UNCHANGED restVars
    /\ UNCHANGED <<supported, registered, platSub, nextId, serverRec,
                   subscribeCalls, subscribeOk, posted>>

(***************************************************************************)
(* JavaScript values, as far as the listeners look at them.  A value has a *)
(* type tag t and, for strings, numbers and booleans, its text v.          *)
(***************************************************************************)
Undef == [t |-> "undef", v |-> ""]
Null == [t |-> "null", v |-> ""]
Str(s) == [t |-> "str", v |-> s]
Num(s) == [t |-> "num", v |-> s]
Bool(s) == [t |-> "bool", v |-> s]

\* ToBoolean: what || , && and ?: test.  Objects and arrays are truthy.
Truthy(x) ==
    /\ x.t \notin {"undef", "null"}
    /\ ~(x.t = "str" /\ x.v = "")
    /\ ~(x.t = "num" /\ x.v = "0")
    /\ ~(x.t = "bool" /\ x.v = "false")

\* a || b
Or(a, b) == IF Truthy(a) THEN a ELSE b

\* The data member of a payload, and notification.data: a value that, when
\* an object, may carry url.
DataVal(tag, text, u) == [t |-> tag, v |-> text, url |-> u]
EmptyObject == DataVal("obj", "", Undef)

\* A parsed payload: a value that, when an object, may carry title, body, data.
Payload(tag, text, ti, bo, da) ==
    [t |-> tag, v |-> text, title |-> ti, body |-> bo, data |-> da]
Primitive(x) == Payload(x.t, x.v, Undef, Undef, DataVal("undef", "", Undef))

\* x.title, x.body, x.data, x.url on a value that is not null or undefined:
\* the member of an object, undefined on a primitive or an array.
GetTitle(x) == IF x.t = "obj" THEN x.title ELSE Undef
GetBody(x) == IF x.t = "obj" THEN x.body ELSE Undef
GetData(x) == IF x.t = "obj" THEN x.data ELSE DataVal("undef", "", Undef)
GetUrl(x) == IF x.t = "obj" THEN x.url ELSE Undef

DefaultTitle == "M&N Driver Portal"
IconPath == "/static/logo.png"
BadgePath == "/static/logo.png"
PortalPath == "/portal"

\* Values a payload's title and body are drawn from.
FieldVals == {Undef, Null, Str(""), Str("T"), Str("B"), Num("0"), Num("7")}
\* Values a payload's data, and a notification's data, are drawn from.
UrlVals == {Undef, Null, Str(""), Str("/x"), Str("/portal")}
DataVals ==
    {DataVal("undef", "", Undef), DataVal("null", "", Undef),
     DataVal("str", "", Undef), DataVal("str", "d", Undef), DataVal("num", "0", Undef)}
    \cup {DataVal("obj", "", u) : u \in UrlVals}

\* What JSON.parse can give for a push message's text.
JsonVals ==
    {Primitive(x) : x \in {Null, Num("0"), Num("7"), Str(""), Str("s"),
                           Bool("true"), Bool("false")}}
    \cup {Payload("arr", "", Undef, Undef, DataVal("undef", "", Undef))}
    \cup {Payload("obj", "", ti, bo, da) :
            ti \in FieldVals, bo \in FieldVals, da \in DataVals}

\* event.data of a push event: null, or a PushMessageData whose text is or
\* is not JSON.  value is what json() returns when it is.
NoJson == Primitive(Undef)
PushDatas ==
    {[present |-> FALSE, json |-> FALSE, text |-> "", value |-> NoJson]}
    \cup {[present |-> TRUE, json |-> FALSE, text |-> x, value |-> NoJson] :
            x \in {"", "hello", "{title:"}}
    \cup {[present |-> TRUE, json |-> TRUE, text |-> "json", value |-> j] :
            j \in JsonVals}

(***************************************************************************)
(* The push listener (service worker 9-20).  The try block covers only     *)
(* event.data.json(): it throws on a null event.data and on text that is   *)
(* not JSON.  The member reads data.title, data.body, data.data follow the *)
(* try block and throw a TypeError when data is null.                      *)
(***************************************************************************)
PushParsed(d) ==
    IF d.present /\ d.json
    THEN d.value
    ELSE Payload("obj", "", Str(DefaultTitle),
                 Str(IF d.present THEN d.text ELSE ""),
                 DataVal("undef", "", Undef))

\* Faulty push listener: options.data is always the empty object.
PushHandlerDropsData(d) ==
    LET data == PushParsed(d) IN
    IF data.t = "null"
    THEN [threw |-> TRUE, shown |-> <<>>]
    ELSE [threw |-> FALSE,
          shown |-> << [title |-> Or(GetTitle(data), Str(DefaultTitle)),
                        body |-> Or(GetBody(data), Str("")),
                        icon |-> IconPath,
                        badge |-> BadgePath,
                        data |-> EmptyObject] >>]

PushHandler(d) ==
    LET data == PushParsed(d) IN
    IF data.t = "null"
    THEN [threw |-> TRUE, shown |-> <<>>]
    ELSE [threw |-> FALSE,
          shown |-> << [title |-> Or(GetTitle(data), Str(DefaultTitle)),
                        body |-> Or(GetBody(data), Str("")),
                        icon |-> IconPath,
                        badge |-> BadgePath,
                        data |-> IF Truthy(GetData(data)) THEN GetData(data)
                                 ELSE EmptyObject] >>]

(***************************************************************************)
(* String.prototype.includes over the characters of the urls in use.       *)
(***************************************************************************)
Chars(s) ==
    CASE s = "" -> <<>>
      [] s = "/x" -> <<"/", "x">>
      [] s = "/portal" -> <<"/", "p", "o", "r", "t", "a", "l">>
      [] s = "/static/sw.js" ->
           <<"/", "s", "t", "a", "t", "i", "c", "/", "s", "w", ".", "j", "s">>
      [] s = "/static/logo.png" ->
           <<"/", "s", "t", "a", "t", "i", "c", "/", "l", "o", "g", "o", ".", "p", "n", "g">>
      [] s = "https://a/" -> <<"h", "t", "t", "p", "s", ":", "/", "/", "a", "/">>
      [] s = "https://a/x" -> <<"h", "t", "t", "p", "s", ":", "/", "/", "a", "/", "x">>
      [] s = "https://a/portal/jobs" ->
           <<"h", "t", "t", "p", "s", ":", "/", "/", "a", "/", "p", "o", "r", "t",
             "a", "l", "/", "j", "o", "b", "s">>

Includes(s, t) ==
    LET cs == Chars(s)
        ct == Chars(t)
    IN \E i \in 0..(Len(cs) - Len(ct)) : SubSeq(cs, i + 1, i + Len(ct)) = ct

\* Number of window clients clients.matchAll may list.
MaxClients == 2

ClientUrls == {"https://a/", "https://a/x", "https://a/portal/jobs"}
\* A listed client: its url, and whether it has a focus method.
Clients == [url : ClientUrls, hasFocus : BOOLEAN]
ClientLists == UNION {[1..n -> Clients] : n \in 0..MaxClients}

Clicks == [data : DataVals, clients : ClientLists, canOpen : BOOLEAN]
NoClick == [data |-> DataVal("undef", "", Undef), clients |-> <<>>, canOpen |-> FALSE]

(***************************************************************************)
(* The notificationclick listener (service worker 22-33).                  *)
(***************************************************************************)
\* const url = (data && data.url) ? data.url : "/portal"
ClickUrl(nd) ==
    IF Truthy(nd) /\ Truthy(GetUrl(nd)) THEN GetUrl(nd).v ELSE PortalPath

\* for (const client of clientList) if (...) return client.focus();
\* gives the index of the client the loop returns at, 0 when it runs out.
RECURSIVE FocusLoop(_, _, _)
FocusLoop(clientList, i, url) ==
    IF i > Len(clientList) THEN 0
    ELSE IF Includes(clientList[i].url, url) /\ clientList[i].hasFocus THEN i
    ELSE FocusLoop(clientList, i + 1, url)

\* Faulty click listener: the loop does not return at the focused client, so
\* openWindow is reached as well.
ClickHandlerAlwaysOpens(k) ==
    LET url == ClickUrl(k.data)
        hit == FocusLoop(k.clients, 1, url)
    IN [closed |-> TRUE,
        focused |-> IF hit # 0 THEN <<hit>> ELSE <<>>,
        opened |-> IF k.canOpen THEN <<url>> ELSE <<>>]

ClickHandler(k) ==
    LET url == ClickUrl(k.data)
        hit == FocusLoop(k.clients, 1, url)
    IN [closed |-> TRUE,
        focused |-> IF hit # 0 THEN <<hit>> ELSE <<>>,
        opened |-> IF hit = 0 /\ k.canOpen THEN <<url>> ELSE <<>>]

WkInit ==
    /\ event = "none"
    /\ pushData = [present |-> FALSE, json |-> FALSE, text |-> "", value |-> NoJson]
    /\ click = NoClick
    /\ threw = FALSE
    /\ shown = <<>>
    /\ closed = FALSE
    /\ focused = <<>>
    /\ opened = <<>>

\* The platform dispatches a push event to the worker.
Push ==
    \E d \in PushDatas :
        /\ event = "none"
        /\ event' = "push"
        /\ pushData' = d
        /\ threw' = PushHandler(d).threw
        /\ shown' = PushHandler(d).shown
        /\ UNCHANGED <<click, closed, focused, opened>>

\* The user clicks a notification; the platform dispatches notificationclick.
NotificationClick ==
    \E k \in Clicks :
        /\ event = "none"
        /\ event' = "notificationclick"
        /\ click' = k
        /\ closed' = ClickHandler(k).closed
        /\ focused' = ClickHandler(k).focused
        /\ opened' = ClickHandler(k).opened
        /\ threw' = FALSE
        /\ UNCHANGED <<pushData, shown>>

(***************************************************************************)
(* urlBase64ToUint8Array (push.js 6-13).  Strings are sequences of         *)
(* one-character strings.                                                  *)
(***************************************************************************)
\* Longest base64String decoded on its own.
MaxKeyLen == 4

\* Characters a key is made of here: two letters of the alphabet, the two
\* URL-safe characters, the padding character, a space and a character that
\* is in neither alphabet.
KeyChars == {"A", "Q", "-", "_", "=", " ", "!"}
KeyStrings == UNION {[1..n -> KeyChars] : n \in 0..MaxKeyLen}

\* '='.repeat(n)
Repeat(ch, n) == [i \in 1..n |-> ch]
\* s.replace(/a/g, b)
ReplaceAll(s, a, b) == [i \in 1..Len(s) |-> IF s[i] = a THEN b ELSE s[i]]

\* atob: the forgiving-base64 decode.  The value of a character of the base64
\* alphabet (of those in use here).
B64Alphabet == {"A", "Q", "+", "/"}
B64Value(ch) ==
    CASE ch = "A" -> 0
      [] ch = "Q" -> 16
      [] ch = "+" -> 62
      [] ch = "/" -> 63

NotWhitespace(ch) == ch # " "

\* The bytes of data characters d: 24 bits give three bytes; 12 bits left over
\* give one byte and 18 bits two, the last 4 or 2 bits being dropped.
RECURSIVE B64Bytes(_)
B64Bytes(d) ==
    IF Len(d) = 0 THEN <<>>
    ELSE IF Len(d) >= 4
    THEN LET n == B64Value(d[1]) * 262144 + B64Value(d[2]) * 4096
                  + B64Value(d[3]) * 64 + B64Value(d[4])
         IN <<n \div 65536, (n \div 256) % 256, n % 256>>
            \o B64Bytes(SubSeq(d, 5, Len(d)))
    ELSE IF Len(d) = 3
    THEN LET n == (B64Value(d[1]) * 4096 + B64Value(d[2]) * 64 + B64Value(d[3])) \div 4
         IN <<n \div 256, n % 256>>
    ELSE LET n == (B64Value(d[1]) * 64 + B64Value(d[2])) \div 16
         IN <<n>>

atob(data) ==
    LET d1 == SelectSeq(data, NotWhitespace)
        n1 == Len(d1)
        d2 == IF n1 > 0 /\ n1 % 4 = 0 /\ d1[n1] = "="
              THEN IF d1[n1 - 1] = "=" THEN SubSeq(d1, 1, n1 - 2)
                   ELSE SubSeq(d1, 1, n1 - 1)
              ELSE d1
    IN IF Len(d2) % 4 = 1 \/ \E i \in 1..Len(d2) : d2[i] \notin B64Alphabet
       THEN [threw |-> TRUE, bytes |-> <<>>]
       ELSE [threw |-> FALSE, bytes |-> B64Bytes(d2)]

\* Faulty urlBase64ToUint8Array: the padding is 4 - length % 4, which is four
\* characters, not none, when the length is a multiple of 4.
urlBase64ToUint8ArrayPadsFour(base64String) ==
    LET padding == Repeat("=", 4 - (Len(base64String) % 4))
        base64 == ReplaceAll(ReplaceAll(base64String \o padding, "-", "+"), "_", "/")
        rawData == atob(base64)
    IN [threw |-> rawData.threw,
        bytes |-> [i \in 1..Len(rawData.bytes) |-> rawData.bytes[i]]]

urlBase64ToUint8Array(base64String) ==
    LET padding == Repeat("=", (4 - (Len(base64String) % 4)) % 4)
        base64 == ReplaceAll(ReplaceAll(base64String \o padding, "-", "+"), "_", "/")
        rawData == atob(base64)
    IN [threw |-> rawData.threw,
        bytes |-> [i \in 1..Len(rawData.bytes) |-> rawData.bytes[i]]]

NotDecoded == [ran |-> FALSE, threw |-> FALSE, bytes |-> <<>>]

DecInit ==
    /\ keyIn = <<>>
    /\ keyOut = NotDecoded

\* urlBase64ToUint8Array is applied to a string.
Decode ==
    \E s \in KeyStrings :
        /\ ~keyOut.ran
        /\ keyIn' = s
        /\ keyOut' = [ran |-> TRUE,
                      threw |-> urlBase64ToUint8Array(s).threw,
                      bytes |-> urlBase64ToUint8Array(s).bytes]

(***************************************************************************)
(* The push and notificationclick listeners step by step (service worker   *)
(* 9-33): each platform call, the promise handed to event.waitUntil, and   *)
(* the platform ending the worker when nothing extends its lifetime.       *)
(***************************************************************************)
Call(o, a) == [op |-> o, arg |-> a]

RunInit ==
    /\ running = "none"
    /\ rClick = NoClick
    /\ calls = <<>>
    /\ pending = {}
    /\ chain = {}
    /\ listed = FALSE
    /\ alive = TRUE

\* Faulty push listener: showNotification is called and its promise is not
\* given to event.waitUntil.
DispatchPushNoWaitUntil(d) ==
    /\ running = "none"
    /\ running' = "push"
    /\ alive' = TRUE
    /\ IF PushHandler(d).threw
       THEN UNCHANGED <<calls, pending, chain>>
       ELSE /\ calls' = <<Call("showNotification", 0)>>
            /\ pending' = {"showNotification"}
            /\ UNCHANGED chain
    /\ UNCHANGED <<rClick, listed>>
    /\ UNCHANGED notRunVars

\* A push event is dispatched and its listener runs to its end: when it does
\* not throw it has called showNotification and then event.waitUntil with the
\* promise of that call.
DispatchPush(d) ==
    /\ running = "none"
    /\ running' = "push"
    /\ alive' = TRUE
    /\ IF PushHandler(d).threw
       THEN UNCHANGED <<calls, pending, chain>>
       ELSE /\ calls' = <<Call("showNotification", 0), Call("waitUntil", 0)>>
            /\ pending' = {"showNotification"}
            /\ chain' = {"showNotification"}
    /\ UNCHANGED <<rClick, listed>>
    /\ UNCHANGED notRunVars

\* Faulty click listener: the notification is closed after clients.matchAll
\* has been called.
DispatchClickClosesLate(k) ==
    /\ running = "none"
    /\ running' = "notificationclick"
    /\ alive' = TRUE
    /\ rClick' = k
    /\ calls' = <<Call("matchAll", 0), Call("waitUntil", 0), Call("close", 0)>>
    /\ pending' = {"matchAll"}
    /\ chain' = {"matchAll"}
    /\ UNCHANGED listed
    /\ UNCHANGED notRunVars

\* A notificationclick event is dispatched and its listener runs to its end:
\* notification.close(), clients.matchAll(...).then(callback), and
\* event.waitUntil with the promise of the then.
DispatchClick(k) ==
    /\ running = "none"
    /\ running' = "notificationclick"
    /\ alive' = TRUE
    /\ rClick' = k
    /\ calls' = <<Call("close", 0), Call("matchAll", 0), Call("waitUntil", 0)>>
    /\ pending' = {"matchAll"}
    /\ chain' = {"matchAll"}
    /\ UNCHANGED listed
    /\ UNCHANGED notRunVars

\* clients.matchAll settles.  Resolved, the callback runs over the list: it
\* returns the promise of the first focus() it reaches, else that of
\* openWindow where the platform has it, else nothing.  What the callback
\* returns is what the promise of the then goes on waiting for.
MatchAllSettles(resolved) ==
    /\ alive
    /\ "matchAll" \in pending
    /\ LET url == ClickUrl(rClick.data)
           hit == FocusLoop(rClick.clients, 1, url)
           made == IF ~resolved THEN <<>>
                   ELSE IF hit # 0 THEN <<Call("focus", hit)>>
                   ELSE IF rClick.canOpen THEN <<Call("openWindow", url)>>
                   ELSE <<>>
           ops == {made[i].op : i \in 1..Len(made)}
       IN /\ calls' = calls \o made
          /\ pending' = (pending \ {"matchAll"}) \cup ops
          /\ chain' = IF "matchAll" \in chain
                      THEN (chain \ {"matchAll"}) \cup ops
                      ELSE chain
    /\ listed' = resolved
    /\ UNCHANGED <<running, rClick, alive>>
    /\ UNCHANGED notRunVars

\* showNotification, focus or openWindow settles.
Settle(o) ==
    /\ alive
    /\ o \in pending \ {"matchAll"}
    /\ pending' = pending \ {o}
    /\ chain' = chain \ {o}
    /\ UNCHANGED <<running, rClick, calls, listed, alive>>
    /\ UNCHANGED notRunVars

\* The platform ends the worker: it may whenever no promise given to
\* event.waitUntil is unsettled.
Terminate ==
    /\ alive
    /\ chain = {}
    /\ alive' = FALSE
    /\ UNCHANGED <<running, rClick, calls, pending, chain, listed>>
    /\ UNCHANGED notRunVars

(***************************************************************************)
(* The install and activate listeners (service worker 2-7) in the          *)
(* lifecycle of a worker registered by registerSW (push.js 3).             *)
(***************************************************************************)
\* Number of open client windows.
NWin == 2
Windows == 1..NWin

\* navigator.serviceWorker.register('/static/sw.js'): with no scope option
\* the scope of the registration is the directory of the script.
ScriptPath == "/static/sw.js"
RECURSIVE Directory(_)
Directory(cs) ==
    IF Len(cs) = 0 \/ cs[Len(cs)] = "/" THEN cs
    ELSE Directory(SubSeq(cs, 1, Len(cs) - 1))
Scope == Directory(Chars(ScriptPath))

StartsWith(cs, ct) == Len(ct) <= Len(cs) /\ SubSeq(cs, 1, Len(ct)) = ct
InScope(path) == StartsWith(Chars(path), Scope)

\* Where a window of the site may be: a page of the portal, or a document
\* under /static/.
WindowPaths == {PortalPath, IconPath}

LifeInit ==
    /\ wState = "parsed"
    /\ skipRequested = FALSE
    /\ skipFlag = FALSE
    /\ oldState = "none"
    /\ oldBusy = FALSE
    /\ windows = [w \in Windows |-> [path |-> PortalPath, controller |-> "none"]]
    /\ claimPending = FALSE

\* The site as the new worker finds it: there may be a prior worker, with
\* events in progress, controlling windows in its scope.
Arrive ==
    /\ wState = "parsed"
    /\ \E old \in {"none", "active"}, busy \in BOOLEAN,
          ws \in [Windows -> [path : WindowPaths, controller : {"none", "old"}]] :
          /\ busy => old = "active"
          /\ \A w \in Windows :
                ws[w].controller = "old" => old = "active" /\ InScope(ws[w].path)
          /\ oldState' = old
          /\ oldBusy' = busy
          /\ windows' = ws
    /\ wState' = "installing"
    /\ UNCHANGED <<skipRequested, skipFlag, claimPending>>
    /\ UNCHANGED notLifeVars

\* The install event: the listener calls self.skipWaiting() and returns, and
\* the worker is installed, waiting.
Install ==
    /\ wState = "installing"
    /\ skipRequested' = TRUE
    /\ wState' = "installed"
    /\ UNCHANGED <<skipFlag, oldState, oldBusy, windows, claimPending>>
    /\ UNCHANGED notLifeVars

\* skipWaiting sets the skip waiting flag, in parallel.
SetSkipFlag ==
    /\ skipRequested /\ ~skipFlag
    /\ skipFlag' = TRUE
    /\ UNCHANGED <<wState, skipRequested, oldState, oldBusy, windows, claimPending>>
    /\ UNCHANGED notLifeVars

\* The prior worker finishes the events it has in progress.
OldEventsFinish ==
    /\ oldBusy
    /\ oldBusy' = FALSE
    /\ UNCHANGED <<wState, skipRequested, skipFlag, oldState, windows, claimPending>>
    /\ UNCHANGED notLifeVars

\* The waiting worker may be activated when there is no active worker, or
\* the active one has no events in progress and either no window uses it or
\* the skip waiting flag is set.
MayActivate ==
    \/ oldState # "active"
    \/ /\ ~oldBusy
       /\ \/ \A w \in Windows : windows[w].controller # "old"
          \/ skipFlag

\* Activation: the worker becomes the active worker, the windows that used
\* the prior worker use it, and the activate event is dispatched: the
\* listener calls self.clients.claim() and event.waitUntil with its promise.
Activate ==
    /\ wState = "installed"
    /\ MayActivate
    /\ wState' = "activating"
    /\ oldState' = IF oldState = "active" THEN "redundant" ELSE oldState
    /\ oldBusy' = FALSE
    /\ windows' = [w \in Windows |->
                      IF windows[w].controller = "old"
                      THEN [windows[w] EXCEPT !.controller = "new"]
                      ELSE windows[w]]
    /\ claimPending' = TRUE
    /\ UNCHANGED <<skipRequested, skipFlag>>
    /\ UNCHANGED notLifeVars

\* clients.claim() settles: every window in the scope of the registration is
\* controlled by the worker.
Claim ==
    /\ claimPending
    /\ windows' = [w \in Windows |->
                      IF InScope(windows[w].path)
                      THEN [windows[w] EXCEPT !.controller = "new"]
                      ELSE windows[w]]
    /\ claimPending' = FALSE
    /\ UNCHANGED <<wState, skipRequested, skipFlag, oldState, oldBusy>>
    /\ UNCHANGED notLifeVars

\* The promise given to event.waitUntil has settled: the worker is activated.
Activated ==
    /\ wState = "activating"
    /\ ~claimPending
    /\ wState' = "activated"
    /\ UNCHANGED <<skipRequested, skipFlag, oldState, oldBusy, windows, claimPending>>
    /\ UNCHANGED notLifeVars

Quiet(c) == \A d \in Calls \ {c} : pc[d] = "idle"

\* A call in flight goes on to its next await, or to its end.
Run(c) ==
    \/ EnableRegister(c)
    \/ EnablePermission(c)
    \/ EnableGetSubscription(c)
    \/ EnableSubscribe(c)
    \/ EnablePost(c)
    \/ DisableRegister(c)
    \/ DisableGetSubscription(c)
    \/ DisablePost(c)
    \/ DisableUnsubscribe(c)

Step(c) ==
    \/ Run(c)
    \/ Return(c)

Init == MgrInit /\ WkInit /\ DecInit /\ RunInit /\ LifeInit

\* The page awaits each call before it makes the next.
Next ==
    \E c \in Calls :
        \/ Quiet(c) /\ StartEnable(c)
        \/ Quiet(c) /\ StartDisable(c)
        \/ Step(c)

Spec == Init /\ [][Next]_vars

\* The page makes calls without awaiting the ones in flight, each of them once.
ConcNext ==
    \E c \in Calls :
        \/ StartEnable(c)
        \/ StartDisable(c)
        \/ Run(c)

ConcSpec == Init /\ [][ConcNext]_vars

\* Push events reach the worker.
PushNext == Push /\ UNCHANGED <<mgrVars, extraVars>>

PushSpec == Init /\ [][PushNext]_vars

\* Notification clicks reach the worker.
ClickNext == NotificationClick /\ UNCHANGED <<mgrVars, extraVars>>

ClickSpec == Init /\ [][ClickNext]_vars

\* Keys are decoded.
DecodeNext == Decode /\ UNCHANGED <<mgrVars, wkVars, runVars, lifeVars>>

DecodeSpec == Init /\ [][DecodeNext]_vars

\* The worker's listeners run step by step.
RunNext ==
    \/ \E d \in PushDatas : DispatchPush(d)
    \/ \E k \in Clicks : DispatchClick(k)
    \/ \E resolved \in BOOLEAN : MatchAllSettles(resolved)
    \/ \E o \in {"showNotification", "focus", "openWindow"} : Settle(o)
    \/ Terminate

RunSpec == Init /\ [][RunNext]_vars

\* A new worker is installed and activated.
LifeNext ==
    \/ Arrive
    \/ Install
    \/ SetSkipFlag
    \/ OldEventsFinish
    \/ Activate
    \/ Claim
    \/ Activated

LifeSpec == Init /\ [][LifeNext]_vars

TypeOK ==
    /\ platSub \in 0..MaxSubs
    /\ nextId \in 1..(MaxSubs + 1)
    /\ serverRec \subseteq 1..MaxSubs
    /\ \A c \in Calls : resp[c] \in Responses \cup {NoResp}

(***************************************************************************)
(* Properties of the subscription manager, checked under Spec.             *)
(***************************************************************************)
Finished(c) == pc[c] \in {"done", "failed"}
PostFailed(c) == "post" \in did[c] /\ resp[c].kind # "ok"

\* C1: in disable(), sub.unsubscribe is reached only with POST /push/unsubscribe
\* answered by a success status; when that POST fails, disable() fails with the
\* POST's error, unsubscribe is not called, and the platform subscription the
\* call found is still the active one.
C1_RevokeOnlyAfterAck ==
    \A c \in Calls :
        op[c] = "disable" =>
            /\ (pc[c] = "unsub" \/ "unsubscribe" \in did[c]) => resp[c].kind = "ok"
            /\ PostFailed(c) =>
                 /\ pc[c] = "failed"
                 /\ err[c] \in {"invalid subscription", "{\"ok\":true}", ErrFallback,
                                ErrFetch, ErrBody}
                 /\ "unsubscribe" \notin did[c]
                 /\ platSub # 0
                 /\ platSub = sub[c]

C1_Witness ==
    \E c \in Calls :
        /\ op[c] = "disable" /\ pc[c] = "failed"
        /\ resp[c].kind = "bad" /\ platSub = sub[c] /\ platSub # 0

\* C2 as stated: over enable() calls with no disable() in between,
\* pushManager.subscribe is invoked at most once and all bodies POSTed to
\* /push/subscribe are equal.
C2_SubscribeInvokedOnce ==
    /\ subscribeCalls <= 1
    /\ Cardinality(posted) <= 1

\* C2 amended: over enable() calls with no disable() in between,
\* pushManager.subscribe is invoked only by a call that found no subscription,
\* so at most one invocation succeeds (it is invoked again after an invocation
\* that failed); every body POSTed to /push/subscribe is the one active
\* subscription of the platform, so all of them are equal.
C2_SubscribeSucceedsOnce ==
    /\ subscribeOk <= 1
    /\ \A c \in Calls : pc[c] = "subscribe" => platSub = 0
    /\ Cardinality(posted) <= 1
    /\ posted # {} => posted = {platSub} /\ platSub # 0

C2_Witness ==
    \E c \in Calls :
        /\ op[c] = "enable" /\ pc[c] = "done"
        /\ "subscribe" \notin did[c]
        /\ subscribeOk = 1
        /\ posted = {sub[c]}

\* C3: enable() resolves true only with POST /push/subscribe answered by a
\* success status for the subscription; when registration, permission,
\* subscription creation or the POST failed, it has not resolved true.
C3_TrueOnlyAfterAck ==
    \A c \in Calls :
        op[c] = "enable" =>
            /\ pc[c] = "done" =>
                 /\ "post" \in did[c]
                 /\ resp[c].kind = "ok"
                 /\ sub[c] # 0
                 /\ reg[c] = "reg"
                 /\ perm[c] = "granted"
            /\ (\/ reg[c] \in {"null", "rejected"}
                \/ perm[c] \in {"denied", "default"}
                \/ err[c] \in {ErrDecode, ErrSubscribe}
                \/ PostFailed(c)) => pc[c] = "failed"

C3_Witness ==
    \E c \in Calls :
        /\ op[c] = "enable" /\ pc[c] = "done"
        /\ "subscribe" \in did[c] /\ resp[c].kind = "ok"

\* C4: when the permission request gives anything but 'granted', enable() fails
\* with the permission error, and that call makes no subscription lookup, no
\* platform subscribe and no POST; the platform subscription and the server's
\* record are as they were when the call began.
C4_PermissionRefusedStops ==
    \A c \in Calls :
        perm[c] \in {"denied", "default"} =>
            /\ pc[c] = "failed"
            /\ err[c] = ErrPerm
            /\ did[c] \cap {"lookup", "decode", "subscribe", "post", "unsubscribe"} = {}
            /\ platSub = before[c].platSub
            /\ serverRec = before[c].serverRec

C4_Witness ==
    \E c \in Calls :
        /\ perm[c] = "default" /\ pc[c] = "failed"
        /\ platSub # 0

\* C5: without worker support registerSW gives null and raises nothing;
\* enable() then fails with the descriptive error before any permission request,
\* subscription operation or network call, and disable() resolves true without
\* a subscription lookup or a network call.
C5_NoWorkerSupport ==
    ~supported =>
        \A c \in Calls :
            /\ pc[c] \notin {"idle", "reg"} => reg[c] = "null"
            /\ reg[c] = "null" =>
                 /\ did[c] = {}
                 /\ op[c] = "enable" => pc[c] = "failed" /\ err[c] = ErrNoSW
                 /\ op[c] = "disable" => pc[c] = "done" /\ err[c] = ""
                 /\ ~registered /\ platSub = 0 /\ serverRec = {}

C5_Witness ==
    /\ ~supported
    /\ \E c \in Calls : op[c] = "enable" /\ pc[c] = "failed" /\ reg[c] = "null"

\* C6 as stated: disable() called when the worker was never registered returns
\* true without a network call and without changing any state.
C6_DisableUnregisteredNoChange ==
    \A c \in Calls :
        (op[c] = "disable" /\ ~before[c].registered /\ Finished(c)) =>
            /\ pc[c] = "done"
            /\ "post" \notin did[c]
            /\ registered = before[c].registered
            /\ platSub = before[c].platSub
            /\ serverRec = before[c].serverRec

\* C6 amended: disable() called when the worker was never registered makes no
\* POST and no unsubscribe and leaves the subscription state and the server's
\* record unchanged.  Without worker support it resolves true and changes
\* nothing.  With worker support it calls navigator.serviceWorker.register:
\* when that resolves the worker is registered from then on and disable()
\* resolves true; when it rejects disable() fails with that error.
C6_DisableUnregistered ==
    \A c \in Calls :
        (op[c] = "disable" /\ ~before[c].registered /\ Finished(c)) =>
            /\ did[c] \cap {"post", "unsubscribe", "subscribe"} = {}
            /\ platSub = before[c].platSub
            /\ serverRec = before[c].serverRec
            /\ reg[c] = "null" => pc[c] = "done" /\ ~registered /\ did[c] = {}
            /\ reg[c] = "reg" => pc[c] = "done" /\ registered
            /\ reg[c] = "rejected" => pc[c] = "failed" /\ err[c] = ErrRegister

C6_Witness ==
    \E c \in Calls :
        /\ op[c] = "disable" /\ ~before[c].registered
        /\ pc[c] = "done" /\ reg[c] = "reg" /\ registered

IsJsonObject(d) == d.present /\ d.json /\ d.value.t = "obj"

\* C7 as stated: for every push event, whatever its payload, the push listener
\* does not throw and shows exactly one notification; for absent or non-JSON
\* data the notification has the default title and the raw text (or the empty
\* string) as body.
C7_PushNeverThrows ==
    event = "push" =>
        /\ ~threw
        /\ Len(shown) = 1
        /\ ~(pushData.present /\ pushData.json) =>
             /\ shown[1].title = Str("M&N Driver Portal")
             /\ shown[1].body = Str(IF pushData.present THEN pushData.text ELSE "")

\* C8 as stated: for a payload that parses as a JSON object the notification has
\* the payload's title if present, else the default title; the payload's body if
\* present, else the empty string; the payload's data if present, else an empty
\* object; and the fixed icon and badge.  A member is taken as present when it
\* is there and not null.
C8_FieldsWhenPresent ==
    (event = "push" /\ IsJsonObject(pushData)) =>
        LET p == pushData.value IN
        /\ ~threw
        /\ Len(shown) = 1
        /\ shown[1].title = (IF p.title \notin {Undef, Null} THEN p.title
                             ELSE Str("M&N Driver Portal"))
        /\ shown[1].body = (IF p.body \notin {Undef, Null} THEN p.body ELSE Str(""))
        /\ shown[1].data = (IF p.data.t \notin {"undef", "null"} THEN p.data
                            ELSE EmptyObject)
        /\ shown[1].icon = "/static/logo.png"
        /\ shown[1].badge = "/static/logo.png"

\* C8 amended: for a payload that parses as a JSON object the notification has
\* the payload's title if it is truthy (present and not "", 0, false or null),
\* else the default title; the payload's body if truthy, else the empty string;
\* the payload's data unchanged if truthy, else an empty object; and the fixed
\* icon and badge.
C8_FieldsWhenTruthy ==
    (event = "push" /\ IsJsonObject(pushData)) =>
        LET p == pushData.value
            falsy == {Undef, Null, Str(""), Num("0"), Bool("false")}
            falsyData == {x \in DataVals : x.t \in {"undef", "null"}
                                           \/ (x.t = "str" /\ x.v = "")
                                           \/ (x.t = "num" /\ x.v = "0")}
        IN
        /\ ~threw
        /\ Len(shown) = 1
        /\ shown[1].title = (IF p.title \notin falsy THEN p.title
                             ELSE Str("M&N Driver Portal"))
        /\ shown[1].body = (IF p.body \notin falsy THEN p.body ELSE Str(""))
        /\ shown[1].data = (IF p.data \notin falsyData THEN p.data ELSE EmptyObject)
        /\ shown[1].icon = "/static/logo.png"
        /\ shown[1].badge = "/static/logo.png"

C8_Witness ==
    /\ event = "push"
    /\ IsJsonObject(pushData)
    /\ pushData.value.title = Str("T")
    /\ pushData.value.body = Str("B")
    /\ pushData.value.data = DataVal("obj", "", Str("/x"))
    /\ shown = << [title |-> Str("T"), body |-> Str("B"), icon |-> "/static/logo.png",
                   badge |-> "/static/logo.png",
                   data |-> DataVal("obj", "", Str("/x"))] >>

(***************************************************************************)
(* Properties of the notificationclick listener, checked under ClickSpec.  *)
(***************************************************************************)
Containing(k, u) == {i \in 1..Len(k.clients) : Includes(k.clients[i].url, u)}
Least(S) == CHOOSE i \in S : \A j \in S : i <= j

Quiescent == \A c \in Calls : pc[c] \in {"idle", "done", "failed"}
ActiveSubs == IF platSub = 0 THEN {} ELSE {platSub}

\* C11 as stated: over every sequence of enable() and disable() calls, the
\* platform subscription is revoked only after the server acknowledged the
\* unsubscribe, and whenever no call is in progress the server's record and the
\* platform's active subscription agree (both present or both absent).
C11_RecordsAgree ==
    /\ \A c \in Calls : "unsubscribe" \in did[c] => resp[c].kind = "ok"
    /\ Quiescent => serverRec = ActiveSubs

\* C11 amended: over every sequence of enable() and disable() calls, the
\* platform subscription is revoked only after the server acknowledged the
\* unsubscribe; the server never has a subscription on record that is not the
\* platform's active one; and when a call has resolved true the two agree (both
\* present after enable(), both absent after disable()).  After a call that
\* failed the platform may hold an active subscription the server has no
\* record of.
C11_RecordOnlyOfActive ==
    /\ \A c \in Calls :
          (pc[c] = "unsub" \/ "unsubscribe" \in did[c]) =>
              "post" \in did[c] /\ resp[c].kind = "ok" /\ resp[c].applied
    /\ serverRec \subseteq ActiveSubs
    /\ \A c \in Calls :
          pc[c] = "done" =>
              /\ op[c] = "enable" => platSub # 0 /\ serverRec = {platSub}
              /\ op[c] = "disable" => platSub = 0 /\ serverRec = {}

\* A disable() that revoked the subscription has resolved true.
C11_Witness ==
    \E c \in Calls :
        /\ op[c] = "disable" /\ pc[c] = "done"
        /\ "unsubscribe" \in did[c]
        /\ before[c].platSub # 0 /\ before[c].serverRec # {}
        /\ platSub = 0 /\ serverRec = {}

(***************************************************************************)
(* C12: what urlBase64ToUint8Array returns.                                *)
(***************************************************************************)
UrlAlphabet == {"A", "Q", "-", "_"}
NotPadding(ch) == ch # "="
\* The number of '=' a correctly padded string of n data characters ends with.
Needed(n) == (4 - (n % 4)) % 4

\* A base64url string: data characters that are not one more than a multiple
\* of four, then none, some or all of the padding they need.
WellFormedUrl(s) ==
    LET data == SelectSeq(s, NotPadding)
    IN /\ \A i \in 1..Len(s) : s[i] = "=" => i > Len(data)
       /\ \A i \in 1..Len(data) : data[i] \in UrlAlphabet
       /\ Len(data) % 4 # 1
       /\ Len(s) - Len(data) <= Needed(Len(data))

\* The equivalent correctly padded string of the standard alphabet.
Standard(s) ==
    LET data == SelectSeq(s, NotPadding)
    IN [i \in 1..Len(data) |->
            CASE data[i] = "-" -> "+" [] data[i] = "_" -> "/" [] OTHER -> data[i]]
       \o [i \in 1..Needed(Len(data)) |-> "="]

\* Decoding a correctly padded standard string, by arithmetic: the data
\* characters are the digits of a number in base 64, whose bits beyond a
\* whole number of bytes are dropped, and whose digits in base 256 are the bytes.
RECURSIVE Base64Number(_)
Base64Number(d) ==
    IF Len(d) = 0 THEN 0
    ELSE Base64Number(SubSeq(d, 1, Len(d) - 1)) * 64 + B64Value(d[Len(d)])

StandardBytes(S) ==
    LET data == SelectSeq(S, NotPadding)
        bits == 6 * Len(data)
        m == Base64Number(data) \div (2 ^ (bits % 8))
        nb == bits \div 8
    IN [j \in 1..nb |-> (m \div (256 ^ (nb - j))) % 256]

\* C12 as stated: a base64url string with padding missing decodes to the
\* bytes of its correctly padded standard form, and every string that is not
\* valid base64 makes the function fail.
C12_FailsOnInvalid ==
    keyOut.ran =>
        /\ WellFormedUrl(keyIn) =>
              ~keyOut.threw /\ keyOut.bytes = StandardBytes(Standard(keyIn))
        /\ ~WellFormedUrl(keyIn) => keyOut.threw

\* C12 amended: a base64url string with padding missing decodes to the bytes
\* of its correctly padded standard form, and a string that is not valid
\* base64 even with its whitespace taken out makes the function fail.
C12_DecodesLikeStandard ==
    keyOut.ran =>
        /\ WellFormedUrl(keyIn) =>
              ~keyOut.threw /\ keyOut.bytes = StandardBytes(Standard(keyIn))
        /\ ~WellFormedUrl(SelectSeq(keyIn, NotWhitespace)) => keyOut.threw

\* A key of URL-safe characters with both its padding characters missing has
\* been decoded.
C12_Witness ==
    /\ keyOut.ran /\ ~keyOut.threw
    /\ WellFormedUrl(keyIn)
    /\ Len(keyIn) = 2
    /\ \E i \in 1..Len(keyIn) : keyIn[i] \in {"-", "_"}
    /\ Len(keyOut.bytes) = 1

(***************************************************************************)
(* C13: enable() and disable() in flight together.                         *)
(***************************************************************************)
\* C13: under every interleaving of an enable() and a disable(), once both
\* have finished, the server holds a record of a subscription only if the
\* platform still holds that subscription as active.
C13_ServerOnlyIfActive ==
    \A e, d \in Calls :
        (/\ op[e] = "enable" /\ Finished(e)
         /\ op[d] = "disable" /\ Finished(d)) =>
            serverRec \subseteq ActiveSubs

(***************************************************************************)
(* Properties of the listeners run step by step, checked under RunSpec.    *)
(***************************************************************************)
\* C14: once the push or notificationclick listener has returned, every
\* platform operation still in flight (showNotification, the enumeration of
\* clients, focus, openWindow) is waited on by the promise given to
\* event.waitUntil, so the worker is not ended while one is in flight.
C14_WorkKeptAlive ==
    /\ pending \subseteq chain
    /\ pending # {} => alive
    /\ \A i \in 1..Len(calls) :
          calls[i].op \in {"showNotification", "matchAll"} =>
              \E j \in 1..Len(calls) : calls[j].op = "waitUntil"

\* The callback of a click has called focus(), whose promise is in flight and
\* keeps the worker running.
C14_Witness ==
    /\ running = "notificationclick"
    /\ listed
    /\ pending = {"focus"}
    /\ chain = {"focus"}
    /\ alive

IsRouting(call) == call.op \in {"focus", "openWindow"}

\* C19: for every notificationclick the notification is closed before
\* clients are enumerated, focused or opened; at most one client is focused or
\* window opened; the client focused is the first of the list whose url
\* contains the target and which has a focus method; openWindow is called
\* only when no client is focused.
C19_CloseThenRouteOnce ==
    running = "notificationclick" =>
        LET u == ClickUrl(rClick.data)
            M == {i \in Containing(rClick, u) : rClick.clients[i].hasFocus}
            routing == SelectSeq(calls, IsRouting)
        IN
        /\ calls[1] = Call("close", 0)
        /\ \A i \in 2..Len(calls) : calls[i].op # "close"
        /\ Len(routing) <= 1
        /\ ~listed => routing = <<>>
        /\ listed /\ M # {} => routing = <<Call("focus", Least(M))>>
        /\ listed /\ M = {} =>
              routing = (IF rClick.canOpen THEN <<Call("openWindow", u)>> ELSE <<>>)

\* The first client of the list contains the target and has no focus method,
\* the second contains it and has one: the second has been focused.
C19_Witness ==
    /\ running = "notificationclick"
    /\ listed
    /\ Len(rClick.clients) = 2
    /\ rClick.clients[1] = [url |-> "https://a/portal/jobs", hasFocus |-> FALSE]
    /\ rClick.clients[2] = [url |-> "https://a/portal/jobs", hasFocus |-> TRUE]
    /\ ClickUrl(rClick.data) = PortalPath
    /\ calls = <<Call("close", 0), Call("matchAll", 0), Call("waitUntil", 0),
                 Call("focus", 2)>>

(***************************************************************************)
(* Properties of the worker's lifecycle, checked under LifeSpec.           *)
(***************************************************************************)
\* C15: a newly installed worker does not stay waiting behind a prior worker
\* (skipWaiting has been called by the time it waits, and with the flag set
\* and the prior worker idle its activation is not held back by the windows
\* the prior worker controls), and once its activate handling has completed
\* every open client window is controlled by the new worker.
C15_ActiveAndControlsAll ==
    /\ wState = "installed" => skipRequested
    /\ wState = "installed" /\ skipFlag /\ ~oldBusy => MayActivate
    /\ wState = "activated" =>
          \A w \in Windows : windows[w].controller = "new"

(***************************************************************************)
(* Properties of one call after another, checked under Spec: before[c]     *)
(* holds the state, and the call last returned, as call c began.           *)
(***************************************************************************)
\* C16: an enable() whose POST /push/subscribe failed leaves the
\* subscription it obtained active; the next enable() gets that subscription
\* from the lookup, does not invoke subscribe, and POSTs it; and when an
\* enable() has resolved true the server has on record exactly the one
\* subscription the platform holds, the only one POSTed since.
C16_RetryReusesSubscription ==
    \A c \in Calls :
        op[c] = "enable" =>
            /\ pc[c] = "failed" /\ "post" \in did[c] =>
                  platSub # 0 /\ platSub = sub[c]
            /\ (/\ before[c].lastCall.op = "enable"
                /\ before[c].lastCall.postFailed
                /\ "lookup" \in did[c]) =>
                  /\ sub[c] = before[c].lastCall.sub
                  /\ platSub = sub[c]
                  /\ "subscribe" \notin did[c]
                  /\ subscribeOk <= 1
                  /\ "post" \in did[c] => posted = {sub[c]}
            /\ pc[c] = "done" =>
                  /\ platSub # 0
                  /\ serverRec = {platSub}
                  /\ posted = {platSub}

\* An enable() following one whose POST failed has resolved true without
\* invoking subscribe, the server having had no record as it began.
C16_Witness ==
    \E c \in Calls :
        /\ op[c] = "enable" /\ pc[c] = "done"
        /\ before[c].lastCall.op = "enable" /\ before[c].lastCall.postFailed
        /\ before[c].serverRec = {}
        /\ "subscribe" \notin did[c]
        /\ serverRec = {before[c].lastCall.sub}

\* C17: a disable() made after a disable() resolved true, with no enable()
\* in between, finds no subscription, makes no POST, calls no unsubscribe,
\* does not fail, and leaves the platform and the server as they were.
C17_DisableIdempotent ==
    \A c \in Calls :
        op[c] = "disable" /\ before[c].disabledOk =>
            /\ sub[c] = 0
            /\ did[c] \cap {"post", "unsubscribe"} = {}
            /\ pc[c] # "failed"
            /\ platSub = 0 /\ platSub = before[c].platSub
            /\ serverRec = before[c].serverRec

\* A disable() that followed a disable() which had revoked the subscription
\* has looked the subscription up and resolved true.
C17_Witness ==
    \E c \in Calls :
        /\ op[c] = "disable" /\ pc[c] = "done"
        /\ before[c].disabledOk
        /\ before[c].lastCall.op = "disable" /\ before[c].lastCall.ok
        /\ before[c].lastCall.sub # 0
        /\ "lookup" \in did[c]

\* C18: an enable() that began with a subscription in place neither decodes
\* its key nor invokes subscribe, whatever the key: it does not fail with the
\* decoding or the subscribe error, the subscription it POSTs is the one in
\* place, and the platform's subscription is unchanged.
C18_KeyUnusedWhenSubscribed ==
    \A c \in Calls :
        op[c] = "enable" /\ before[c].platSub # 0 =>
            /\ did[c] \cap {"decode", "subscribe"} = {}
            /\ err[c] \notin {ErrDecode, ErrSubscribe}
            /\ platSub = before[c].platSub
            /\ "lookup" \in did[c] => sub[c] = before[c].platSub
            /\ "post" \in did[c] => before[c].platSub \in posted
            /\ pc[c] = "done" => serverRec = {before[c].platSub}

\* An enable() given a malformed key, with a subscription in place, has
\* resolved true.
C18_Witness ==
    \E c \in Calls :
        /\ op[c] = "enable" /\ pc[c] = "done"
        /\ key[c] = "malformed"
        /\ before[c].platSub # 0
        /\ "post" \in did[c]

====
